---------------------------- MODULE Spec2Model ----------------------------
(***************************************************************************)
(* Chat-list row layout of Telegram/SourceFiles/dialogs/ui/               *)
(* dialogs_layout.cpp: unread badge text and geometry, the badge bitmap   *)
(* cache, the narrow and wide counter layouts, the row content resolver   *)
(* (PaintRow) and the two RowPainter::Paint entry points.                 *)
(*                                                                         *)
(* Lengths are in abstract pixels.  Strings are sequences of one-letter   *)
(* strings.  A painted row is recorded as the set of elements painted and *)
(* the geometry the claims are about.                                     *)
(***************************************************************************)
EXTENDS Integers, Sequences, FiniteSets, TLC

VARIABLES
    inp,     \* the inputs of the call under study (drawn by Init)
    out,     \* what the last operation painted or returned
    cache,   \* unreadBadgeStyle: the process-wide badge bitmap cache
    theme,   \* the number of palette changes so far (names the palette)
    builds,  \* history: builds of each key's half-pixmaps since the last palette change
    thr      \* the thread of the row: cloud draft, cloudDraftTextCache, item views

vars == <<inp, out, cache, theme, builds, thr>>

(***************************************************************************)
(* Bounds of the model.                                                    *)
(***************************************************************************)
MaxLen == 4            \* longest count string
MaxAllowDigits == 3    \* largest allowDigits argument
MaxMetric == 3         \* largest badge height / padding of a badge style
MaxThemeChanges == 1   \* palette changes in one behaviour

Null == [isNull |-> TRUE]
NoOut == [op |-> "none"]
NoInp == [kind |-> "none"]

Max(a, b) == IF a > b THEN a ELSE b

(***************************************************************************)
(* Texts.                                                                  *)
(***************************************************************************)
DigitChars == <<"0", "1", "2", "3", "4", "5", "6", "7", "8", "9">>

RECURSIVE NumberString(_)
\* QString::number(n) for n >= 0
NumberString(n) ==
    IF n < 10 THEN <<DigitChars[n + 1]>>
    ELSE NumberString(n \div 10) \o <<DigitChars[(n % 10) + 1]>>

\* QString::mid(position): the characters from position (0-based) to the end
Mid(s, position) == SubSeq(s, position + 1, Len(s))

ComputeUnreadBadgeTextNoPrefix(unreadCount, allowDigits) ==
    IF (allowDigits > 0) /\ (Len(unreadCount) > allowDigits + 1)
    THEN Mid(unreadCount, Len(unreadCount) - allowDigits)
    ELSE unreadCount

ComputeUnreadBadgeText(unreadCount, allowDigits) ==
    IF (allowDigits > 0) /\ (Len(unreadCount) > allowDigits + 1)
    THEN <<".", ".">> \o Mid(unreadCount, Len(unreadCount) - allowDigits)
    ELSE unreadCount

\* style::font::width(text): every letter advances by the font's width for it
RECURSIVE FontWidth(_, _)
FontWidth(font, text) ==
    IF text = <<>> THEN 0
    ELSE (IF Head(text) = "." THEN font.dot ELSE font.digit)
         + FontWidth(font, Tail(text))

CountUnreadBadgeSizeNoMax(unreadCount, st, allowDigits) ==
    LET text == ComputeUnreadBadgeText(unreadCount, allowDigits)
        unreadWidth == FontWidth(st.font, text)
    IN  [width |-> unreadWidth + 2 * st.padding, height |-> st.size]

CountUnreadBadgeSize(unreadCount, st, allowDigits) ==
    LET text == ComputeUnreadBadgeText(unreadCount, allowDigits)
        unreadRectHeight == st.size
        unreadWidth == FontWidth(st.font, text)
    IN  [width |-> Max(unreadWidth + 2 * st.padding, unreadRectHeight),
         height |-> unreadRectHeight]

(***************************************************************************)
(* The specification of the two pure functions: Init draws the arguments, *)
(* the actions apply the functions.                                       *)
(***************************************************************************)
TextChars == {"1", "7"}
Texts == UNION {[1..n -> TextChars] : n \in 0..MaxLen}
Fonts == {[digit |-> 1, dot |-> 1], [digit |-> 2, dot |-> 1]}
TextStyles ==
    [size : 1..MaxMetric, padding : 0..MaxMetric, font : Fonts]

IdleThread == [isNull |-> TRUE]

IdleCache ==
    [created |-> FALSE,
     circle |-> [s \in {} |-> 0], left |-> [s \in {} |-> 0], right |-> [s \in {} |-> 0]]

InitText ==
    /\ inp \in [kind : {"text"}, text : Texts,
                allowDigits : (-1)..MaxAllowDigits, st : TextStyles]
    /\ out = NoOut
    /\ cache = IdleCache
    /\ theme = 0
    /\ builds = <<>>
    /\ thr = IdleThread

CallComputeUnreadBadgeText ==
    /\ inp.kind = "text"
    /\ out' = [op |-> "ComputeUnreadBadgeText",
               result |-> ComputeUnreadBadgeText(inp.text, inp.allowDigits)]
    /\ UNCHANGED <<inp, cache, theme, builds, thr>>

CallCountUnreadBadgeSize ==
    /\ inp.kind = "text"
    /\ out' = [op |-> "CountUnreadBadgeSize",
               result |-> CountUnreadBadgeSize(inp.text, inp.st, inp.allowDigits)]
    /\ UNCHANGED <<inp, cache, theme, builds, thr>>

NextText == CallComputeUnreadBadgeText \/ CallCountUnreadBadgeSize

SpecText == InitText /\ [][NextText]_vars

(***************************************************************************)
(* C1: ComputeUnreadBadgeText(s, allowDigits) is s itself when            *)
(* allowDigits <= 0 or s has at most allowDigits + 1 letters, and         *)
(* otherwise ".." followed by exactly the last allowDigits letters of s.  *)
(***************************************************************************)
C1_BadgeText ==
    out.op = "ComputeUnreadBadgeText" =>
        LET s == inp.text
            a == inp.allowDigits
            r == out.result
        IN  IF a <= 0 \/ Len(s) <= a + 1
            THEN r = s
            ELSE /\ Len(r) = a + 2
                 /\ r[1] = "." /\ r[2] = "."
                 /\ \A i \in 1..a : r[2 + i] = s[Len(s) - a + i]

C1_Witness ==
    /\ out.op = "ComputeUnreadBadgeText"
    /\ inp.allowDigits = 2
    /\ inp.text = <<"1", "7", "7", "1">>
    /\ out.result = <<".", ".", "7", "1">>

(***************************************************************************)
(* C10: CountUnreadBadgeSize returns the style's badge height as height   *)
(* and max(textWidth + 2 * padding, height) as width: the width is never  *)
(* below the height (also for the empty text) and does not shrink when    *)
(* the measured width of the displayed text grows.                        *)
(***************************************************************************)
C10_BadgeSize ==
    out.op = "CountUnreadBadgeSize" =>
        LET st == inp.st
            shown == ComputeUnreadBadgeText(inp.text, inp.allowDigits)
            w == FontWidth(st.font, shown)
            r == out.result
        IN  /\ r.height = st.size
            /\ r.width >= r.height
            /\ r.width >= w + 2 * st.padding
            /\ r.width = r.height \/ r.width = w + 2 * st.padding
            /\ CountUnreadBadgeSize(<<>>, st, inp.allowDigits).width >= st.size
            /\ \A t \in Texts :
                 LET shownT == ComputeUnreadBadgeText(t, inp.allowDigits)
                 IN  FontWidth(st.font, shownT) >= w =>
                       CountUnreadBadgeSize(t, st, inp.allowDigits).width >= r.width

C10_Witness ==
    /\ out.op = "CountUnreadBadgeSize"
    /\ inp.text = <<>>
    /\ inp.st.padding = 0
    /\ inp.st.size = 2
    /\ out.result = [width |-> 2, height |-> 2]

(***************************************************************************)
(* The badge bitmap cache.                                                 *)
(***************************************************************************)
\* the size classes this file paints with (UnreadBadgeStyle::sizeId)
SizeIds == {"Dialogs", "ReactionInDialogs"}
ColorIndices == 0..5

\* UnreadBadgeStyleData::bg
BgTable ==
    <<"dialogsUnreadBg", "dialogsUnreadBgOver", "dialogsUnreadBgActive",
      "dialogsUnreadBgMuted", "dialogsUnreadBgMutedOver",
      "dialogsUnreadBgMutedActive">>

\* UnreadBadgeStyleData::reactionBg
ReactionBgTable ==
    <<"dialogsDraftFg", "dialogsDraftFgOver", "dialogsDraftFgActive",
      "dialogsUnreadBgMuted", "dialogsUnreadBgMutedOver",
      "dialogsUnreadBgMutedActive">>

\* UnreadBadgeSizeData sizes[kCount], all pixmaps null; the structure is not
\* created before the first badge is painted
EmptyCache ==
    [created |-> FALSE,
     circle |-> [s \in SizeIds |-> Null],
     left |-> [s \in SizeIds |-> [i \in ColorIndices |-> Null]],
     right |-> [s \in SizeIds |-> [i \in ColorIndices |-> Null]]]

NoBuilds == [s \in SizeIds |-> [i \in ColorIndices |-> 0]]

\* a style::color read under palette number pal
ColorValue(name, pal) == [isNull |-> FALSE, name |-> name, palette |-> pal]

BadgeColorIndexMutedTwo(st) ==
    (IF st.muted THEN 2 ELSE 0)
    + (IF st.active THEN 2 ELSE (IF st.selected THEN 1 ELSE 0))

\* int index = (st.muted ? 0x03 : 0x00)
\*     + (st.active ? 0x02 : (st.selected ? 0x01 : 0x00)) (line 760)
BadgeColorIndex(st) ==
    (IF st.muted THEN 3 ELSE 0)
    + (IF st.active THEN 2 ELSE (IF st.selected THEN 1 ELSE 0))

BadgeBg(st, index, pal) ==
    IF st.sizeId = "ReactionInDialogs"
    THEN ColorValue(ReactionBgTable[index + 1], pal)
    ELSE ColorValue(BgTable[index + 1], pal)

\* createCircleMask: made once per size class, kept across palette changes
CreateCircleMask(circle, size) ==
    IF circle # Null THEN circle ELSE [isNull |-> FALSE, size |-> size]

\* colorizeCircleHalf + PixmapFromImage
ColorizeCircleHalf(circle, half, color) ==
    [isNull |-> FALSE, mask |-> circle, half |-> half, color |-> color]

PixmapMissingAlways(c, sizeId, index) == TRUE

\* badgeData->left[index].isNull()
PixmapMissing(c, sizeId, index) == c.left[sizeId][index] = Null

\* void PaintUnreadBadge(QPainter&, const QRect&, const UnreadBadgeStyle&):
\* the cache after the call and what was drawn
PaintUnreadBadgeRect(c, pal, rect, st) ==
    LET index == BadgeColorIndex(st)
        sizehalf == st.size \div 2
        bg == BadgeBg(st, index, pal)
        build == PixmapMissing(c, st.sizeId, index)
        circle == IF build THEN CreateCircleMask(c.circle[st.sizeId], st.size)
                  ELSE c.circle[st.sizeId]
        c2 == IF build
              THEN [created |-> TRUE,
                    circle |-> [c.circle EXCEPT ![st.sizeId] = circle],
                    left |-> [c.left EXCEPT ![st.sizeId][index] =
                                ColorizeCircleHalf(circle, "left", bg)],
                    right |-> [c.right EXCEPT ![st.sizeId][index] =
                                ColorizeCircleHalf(circle, "right", bg)]]
              ELSE [c EXCEPT !.created = TRUE]
        bar == rect.width - 2 * sizehalf
    IN  [cache |-> c2,
         draw |-> [sizeId |-> st.sizeId, index |-> index, built |-> build,
                   left |-> c2.left[st.sizeId][index],
                   right |-> c2.right[st.sizeId][index],
                   bar |-> IF bar # 0 THEN bg ELSE Null,
                   rect |-> rect]]

\* the default of the allowDigits parameter (declared in dialogs_layout.h)
DefaultAllowDigits == 0

\* what PaintUnreadBadge hands back: the cache after the draw, the draw,
\* the text shown and the rectangle returned (line 882)
BadgeDrawn(painted, text, badge) ==
    [cache |-> painted.cache,
     draw |-> painted.draw,
     text |-> text,
     badge |-> badge]

\* QRect PaintUnreadBadge(QPainter&, const QString&, int x, int y,
\*     const UnreadBadgeStyle&, int allowDigits); st.align is right-aligned
\* (the default of UnreadBadgeStyle) in every call of this file
PaintUnreadBadge(c, pal, unreadCount, x, y, st, allowDigits) ==
    LET text == ComputeUnreadBadgeText(unreadCount, allowDigits)
        unreadRectHeight == st.size
        unreadWidth == FontWidth(st.font, text)
        unreadRectWidth == Max(unreadWidth + 2 * st.padding, unreadRectHeight)
        unreadRectLeft == x - unreadRectWidth
        badge == [left |-> unreadRectLeft, top |-> y,
                  width |-> unreadRectWidth, height |-> unreadRectHeight]
    IN  BadgeDrawn(PaintUnreadBadgeRect(c, pal, badge, st), text, badge)

\* the history variable after the badge draws of one operation
CountBuilds(b, draws) ==
    [s \in SizeIds |-> [i \in ColorIndices |->
        b[s][i] + Cardinality({k \in DOMAIN draws :
            draws[k].sizeId = s /\ draws[k].index = i /\ draws[k].built})]]

ClearLeftOnly(c) ==
    [c EXCEPT !.left = [s \in SizeIds |-> [i \in ColorIndices |-> Null]]]

\* the style::PaletteChanged() handler of UnreadBadgeStyleData
ClearPixmaps(c) ==
    [c EXCEPT !.left = [s \in SizeIds |-> [i \in ColorIndices |-> Null]],
              !.right = [s \in SizeIds |-> [i \in ColorIndices |-> Null]]]

(***************************************************************************)
(* Style metrics of the dialogs list, in abstract pixels.                  *)
(***************************************************************************)
dialogsUnreadHeight == 2
dialogsUnreadPadding == 1
dialogsUnreadFont == [digit |-> 1, dot |-> 1]

\* UnreadBadgeStyle::UnreadBadgeStyle() with the header's member defaults
UnreadBadgeStyle ==
    [size |-> dialogsUnreadHeight,
     padding |-> dialogsUnreadPadding,
     font |-> dialogsUnreadFont,
     sizeId |-> "Dialogs",
     active |-> FALSE, selected |-> FALSE, muted |-> FALSE,
     textTop |-> 0]

(***************************************************************************)
(* The specification of the badge cache: badges of every style are        *)
(* painted and the palette changes.                                       *)
(***************************************************************************)
InitBadge ==
    /\ inp = [kind |-> "badge"]
    /\ out = NoOut
    /\ cache = EmptyCache
    /\ theme = 0
    /\ builds = NoBuilds
    /\ thr = IdleThread

CallPaintUnreadBadge ==
    /\ inp.kind = "badge"
    /\ \E sizeId \in SizeIds, active \in BOOLEAN, selected \in BOOLEAN,
          muted \in BOOLEAN :
        LET st == [UnreadBadgeStyle EXCEPT !.sizeId = sizeId,
                       !.active = active, !.selected = selected,
                       !.muted = muted]
            r == PaintUnreadBadge(cache, theme, <<>>, 0, 0, st,
                                  DefaultAllowDigits)
        IN  /\ cache' = r.cache
            /\ out' = [op |-> "PaintUnreadBadge", built |-> r.draw.built]
            /\ builds' = CountBuilds(builds, <<r.draw>>)
    /\ UNCHANGED <<inp, theme, thr>>

\* style::PaletteChanged() fires; the handler exists once the structure does
PaletteChanged ==
    /\ theme < MaxThemeChanges
    /\ theme' = theme + 1
    /\ cache' = IF cache.created THEN ClearPixmaps(cache) ELSE cache
    /\ builds' = NoBuilds
    /\ out' = [op |-> "PaletteChanged"]
    /\ UNCHANGED <<inp, thr>>

NextBadge == CallPaintUnreadBadge \/ PaletteChanged

SpecBadge == InitBadge /\ [][NextBadge]_vars

BadgeStyles ==
    {[UnreadBadgeStyle EXCEPT !.sizeId = sizeId, !.active = active,
          !.selected = selected, !.muted = muted] :
        sizeId \in SizeIds, active \in BOOLEAN, selected \in BOOLEAN,
        muted \in BOOLEAN}

\* what a PaintUnreadBadge call made in the current state would draw
DrawNow(st) ==
    PaintUnreadBadge(cache, theme, <<>>, 0, 0, st, DefaultAllowDigits).draw

(***************************************************************************)
(* C4: between two palette changes the half-pixmaps of a key are built at *)
(* most once, on the first draw that finds the key empty; once built they *)
(* stay as they are until the palette changes, and every later draw of    *)
(* the key draws them without building.                                   *)
(***************************************************************************)
C4_BuiltOnce ==
    /\ [](\A s \in SizeIds, i \in ColorIndices :
            /\ builds[s][i] <= 1
            /\ (cache.left[s][i] # Null) = (builds[s][i] = 1)
            /\ (cache.right[s][i] # Null) = (builds[s][i] = 1))
    /\ [](\A st \in BadgeStyles :
            LET i == BadgeColorIndex(st)
            IN  cache.left[st.sizeId][i] # Null =>
                  /\ ~DrawNow(st).built
                  /\ DrawNow(st).left = cache.left[st.sizeId][i]
                  /\ DrawNow(st).right = cache.right[st.sizeId][i])
    /\ [][\A s \in SizeIds, i \in ColorIndices :
            (theme' = theme /\ cache.left[s][i] # Null) =>
                /\ cache'.left[s][i] = cache.left[s][i]
                /\ cache'.right[s][i] = cache.right[s][i]]_vars

C4_Witness ==
    /\ out.op = "PaintUnreadBadge"
    /\ ~out.built
    /\ builds["Dialogs"][0] = 1
    /\ builds["ReactionInDialogs"][5] = 1

(***************************************************************************)
(* C5: a palette change empties the left and right half-pixmaps of every  *)
(* size class and colour index in one step; the cache never holds, and no *)
(* draw ever uses, a pixmap coloured under an earlier palette.            *)
(***************************************************************************)
C5_ThemeChangeClearsAll ==
    /\ [][theme' # theme =>
            \A s \in SizeIds, i \in ColorIndices :
                cache'.left[s][i] = Null /\ cache'.right[s][i] = Null]_vars
    /\ [](\A s \in SizeIds, i \in ColorIndices :
            /\ cache.left[s][i] # Null => cache.left[s][i].color.palette = theme
            /\ cache.right[s][i] # Null => cache.right[s][i].color.palette = theme)
    /\ [](\A st \in BadgeStyles :
            /\ DrawNow(st).left.color.palette = theme
            /\ DrawNow(st).right.color.palette = theme
            /\ DrawNow(st).left.half = "left"
            /\ DrawNow(st).right.half = "right")

C5_Witness ==
    /\ theme = 1
    /\ out.op = "PaintUnreadBadge"
    /\ out.built
    /\ cache.left["Dialogs"][2] # Null
    /\ cache.left["Dialogs"][2].color.palette = 1
    /\ cache.right["ReactionInDialogs"][3] # Null

(***************************************************************************)
(* The counter layouts.  A painter's result is the cache after it, the    *)
(* badges drawn (in order), the elements painted and, for the wide        *)
(* layout, the width left for the text line.                              *)
(***************************************************************************)
\* style::DialogRow (context.st) and the icons of the list
DialogRow ==
    [height |-> 6, nameLeft |-> 4, nameTop |-> 1, textTop |-> 3,
     photoSize |-> 3,
     padding |-> [left |-> 1, top |-> 1, right |-> 1, bottom |-> 1]]
dialogsPinnedIconWidth == 2

\* the badge style of a counter or mark (lines 127-130, 202-205)
CounterStyle(context, unreadMuted) ==
    [UnreadBadgeStyle EXCEPT !.active = context.active,
                             !.selected = context.selected,
                             !.muted = unreadMuted]

\* the badge style of a mention or reaction badge (lines 149-157, 236-244)
MentionStyle(context, displayMentionBadge, mentionOrReactionMuted) ==
    [UnreadBadgeStyle EXCEPT
        !.sizeId = IF displayMentionBadge THEN "Dialogs"
                   ELSE "ReactionInDialogs",
        !.active = context.active,
        !.selected = context.selected,
        !.muted = mentionOrReactionMuted,
        !.padding = 0,
        !.textTop = 0]

CounterString(unreadCount) ==
    IF unreadCount > 0 THEN NumberString(unreadCount) ELSE <<>>

\* the element a counter badge stands for
CounterOp(d) == IF d.displayUnreadCounter THEN "counter" ELSE "mark"

\* the element a mention or reaction badge stands for
MentionOp(d) == IF d.displayMentionBadge THEN "mention" ELSE "reaction"

\* nothing painted yet by a counter layout given availableWidth
NoCounter(c, availableWidth) ==
    [cache |-> c, draws |-> <<>>, ops |-> {}, counterText |-> <<>>,
     counterWidth |-> 0, counterPadding |-> 0, skipBeforeMention |-> 0,
     initial |-> availableWidth, availableWidth |-> availableWidth]

NarrowAfterCounterNoSkip(s, b, st, d) ==
    [s EXCEPT !.cache = b.cache,
              !.draws = @ \o <<b.draw>>,
              !.ops = @ \cup {CounterOp(d)},
              !.counterText = b.text,
              !.counterWidth = b.badge.width,
              !.counterPadding = st.padding]

\* after the counter badge of the narrow layout: skipBeforeMention (line 138)
NarrowAfterCounter(s, b, st, d) ==
    [s EXCEPT !.cache = b.cache,
              !.draws = @ \o <<b.draw>>,
              !.ops = @ \cup {CounterOp(d)},
              !.counterText = b.text,
              !.counterWidth = b.badge.width,
              !.counterPadding = st.padding,
              !.skipBeforeMention = @ + b.badge.width + st.padding]

\* after the mention or reaction badge of the narrow layout
NarrowAfterMention(s, b, d) ==
    [s EXCEPT !.cache = b.cache,
              !.draws = @ \o <<b.draw>>,
              !.ops = @ \cup {MentionOp(d)}]

\* the first block of PaintNarrowCounter (lines 113-139); d: the display
\* flags and counts handed over by RowPainter::Paint
NarrowCounterStep(c, pal, context, d) ==
    IF d.displayUnreadCounter \/ d.displayUnreadMark
    THEN NarrowAfterCounter(
             NoCounter(c, 0),
             PaintUnreadBadge(c, pal, CounterString(d.unreadCount),
                 context.st.padding.left + context.st.photoSize,
                 context.st.padding.top + context.st.photoSize
                     - dialogsUnreadHeight,
                 CounterStyle(context, d.unreadMuted),
                 IF d.displayMentionBadge \/ d.displayReactionBadge
                 THEN 1 ELSE 3),
             CounterStyle(context, d.unreadMuted), d)
    ELSE NoCounter(c, 0)

\* the second block of PaintNarrowCounter (lines 140-175)
NarrowMentionStep(s, pal, context, d) ==
    IF d.displayMentionBadge \/ d.displayReactionBadge
    THEN NarrowAfterMention(
             s,
             PaintUnreadBadge(s.cache, pal, <<>>,
                 context.st.padding.left + context.st.photoSize
                     - s.skipBeforeMention,
                 context.st.padding.top + context.st.photoSize
                     - dialogsUnreadHeight,
                 MentionStyle(context, d.displayMentionBadge,
                              d.mentionOrReactionMuted),
                 DefaultAllowDigits),
             d)
    ELSE s

PaintNarrowCounter(c, pal, context, d) ==
    NarrowMentionStep(NarrowCounterStep(c, pal, context, d), pal, context, d)

WideCounterWidthNoPadding(badge, st) == badge.width

\* availableWidth -= badge.width() + st.padding (line 212)
WideCounterWidth(badge, st) == badge.width + st.padding

\* after the counter badge of the wide layout (line 212)
WideAfterCounter(s, b, st, d) ==
    [s EXCEPT !.cache = b.cache,
              !.draws = @ \o <<b.draw>>,
              !.ops = @ \cup {CounterOp(d)},
              !.counterText = b.text,
              !.counterWidth = b.badge.width,
              !.counterPadding = st.padding,
              !.availableWidth = @ - WideCounterWidth(b.badge, st)]

\* after the pinned icon of the wide layout (lines 213-225)
WideAfterPinned(s) ==
    [s EXCEPT !.ops = @ \cup {"pinned"},
              !.availableWidth =
                  @ - (dialogsPinnedIconWidth + dialogsUnreadPadding)]

\* after the mention or reaction badge of the wide layout (lines 262-264)
WideAfterMention(s, b, st, d) ==
    [s EXCEPT !.cache = b.cache,
              !.draws = @ \o <<b.draw>>,
              !.ops = @ \cup {MentionOp(d)},
              !.availableWidth =
                  @ - (b.badge.width + st.padding + dialogsUnreadPadding)]

\* the first block of PaintWideCounter (lines 191-225); the badge's top
\* (lines 197-200) is texttop moved by font metrics and is kept as texttop
WideCounterStep(c, pal, context, texttop, availableWidth, d) ==
    IF d.displayUnreadCounter \/ d.displayUnreadMark
    THEN WideAfterCounter(
             NoCounter(c, availableWidth),
             PaintUnreadBadge(c, pal, CounterString(d.unreadCount),
                 context.width - context.st.padding.right,
                 texttop, CounterStyle(context, d.unreadMuted),
                 DefaultAllowDigits),
             CounterStyle(context, d.unreadMuted), d)
    ELSE IF d.displayPinnedIcon
    THEN WideAfterPinned(NoCounter(c, availableWidth))
    ELSE NoCounter(c, availableWidth)

\* the second block of PaintWideCounter (lines 226-265)
WideMentionStep(s, pal, context, texttop, d) ==
    IF d.displayMentionBadge \/ d.displayReactionBadge
    THEN WideAfterMention(
             s,
             PaintUnreadBadge(s.cache, pal, <<>>,
                 context.width - context.st.padding.right
                     - (s.initial - s.availableWidth),
                 texttop,
                 MentionStyle(context, d.displayMentionBadge,
                              d.mentionOrReactionMuted),
                 DefaultAllowDigits),
             MentionStyle(context, d.displayMentionBadge,
                          d.mentionOrReactionMuted),
             d)
    ELSE s

\* int PaintWideCounter(...): the result's availableWidth is the return value
PaintWideCounter(c, pal, context, texttop, availableWidth, d) ==
    WideMentionStep(
        WideCounterStep(c, pal, context, texttop, availableWidth, d),
        pal, context, texttop, d)

(***************************************************************************)
(* The row content resolver.                                               *)
(*                                                                         *)
(* r: the facts of the row and of the paint context.                      *)
(*   entry "Row" | "FakeRow"; key "history" | "topic" | "folder";        *)
(*   item (NoItem or a message); context; supportMode; promoted           *)
(*   (History::useTopPromotion); banner (topPromotionMessage, "" if       *)
(*   none); occupied; sendAction "hidden" | "idle" | "typing"; pinned     *)
(*   (Entry::isPinnedDialog(context.filter)); fixedOnTop; unreadCount;    *)
(*   unreadMark; unreadMuted; mentions; reactions; inFolder.              *)
(* t: what the thread keeps between paints: its cloud draft, its          *)
(*   cloudDraftTextCache, its lastItemDialogsView and the fake row's      *)
(*   itemView.                                                            *)
(***************************************************************************)
NoItem == [exists |-> FALSE]
NoDraft == [isNull |-> TRUE]
EmptyText == [isEmpty |-> TRUE]
NoView == [prepared |-> FALSE]
NoTrailing == [kind |-> "none"]
NoWide == [called |-> FALSE]

\* Dialogs::Key::history(): a history key only
KeyHistory(key) == key = "history"
\* Dialogs::Key::thread(): a history or a forum topic
KeyThread(key) == key \in {"history", "topic"}
\* Row::folder()
KeyFolder(key) == key = "folder"

\* Support::Helper::isOccupiedBySomeone(history): never for no history
IsOccupiedBySomeone(history, r) == history /\ r.occupied

\* ShowSendActionInDialogs(thread): "hidden" stands for a user peer that
\* was never online
ShowSendActionInDialogs(thread, r) == thread /\ r.sendAction # "hidden"

\* thread->sendActionPainter()->paint(...)
SendActionPaint(r) == r.sendAction = "typing"

\* entry->isPinnedDialog(context.filter)
\*     && (context.filter || !entry->fixedOnTopIndex())
PinnedIconShown(r) == r.pinned /\ (r.context.filter \/ ~r.fixedOnTop)

\* Active / Over / plain variant of a colour, palette or icon
Variant(context) ==
    IF context.active THEN "Active"
    ELSE IF context.selected THEN "Over" ELSE ""

\* the promotion banner text put into cloudDraftTextCache (lines 421-426)
PromotionText(r) == [isEmpty |-> FALSE, kind |-> "promotion", message |-> r.banner]

\* the draft line put into cloudDraftTextCache (lines 479-509)
DraftLineText(supportMode, draft) ==
    IF supportMode
    THEN [isEmpty |-> FALSE, kind |-> "occupied", message |-> "ChatOccupiedString"]
    ELSE [isEmpty |-> FALSE, kind |-> "lng_from_draft", message |-> draft.text]

\* the palette of the draft line (lines 518-528)
DraftPalette(supportMode, context) ==
    IF supportMode THEN <<"dialogsTextPaletteTaken", Variant(context)>>
    ELSE <<"dialogsTextPaletteDraft", Variant(context)>>

\* view->prepared(item)
ViewPrepared(view, item) == view.prepared /\ view.item = item.id

\* view->prepare(item, ...); reused: the view held another preparation
ViewPrepare(view, item) ==
    [prepared |-> TRUE, item |-> item.id, reused |-> view.prepared]

ViewPreparedOnce(view, item) ==
    IF ~view.prepared THEN ViewPrepare(view, item) ELSE view

\* if (!view->prepared(item)) { view->prepare(item, ...); } (lines
\* 1002-1007, 1121-1123): the view that is painted next
ViewAfterPrepare(view, item) ==
    IF ~ViewPrepared(view, item) THEN ViewPrepare(view, item) ELSE view

ActionHidesViewNever(actionWasPainted, thread) == thread

\* the view the live row's item callback paints (lines 994-998)
ItemViewUsed(actionWasPainted, thread) == ~actionWasPainted /\ thread

\* what the item callbacks remember of the PaintWideCounter call
WideCall(wide) ==
    [called |-> TRUE, initial |-> wide.initial,
     availableWidth |-> wide.availableWidth,
     counterText |-> wide.counterText,
     counterWidth |-> wide.counterWidth,
     counterPadding |-> wide.counterPadding]

\* paintItemCallback of RowPainter::Paint(Row) after its PaintWideCounter
\* call (lines 974-1009); PaintListEntryText returns at once if the
\* rectangle is empty
RowItemPainted(wide, t, r) ==
    LET thread == KeyThread(r.key)
        actionWasPainted ==
            IF ShowSendActionInDialogs(thread, r) THEN SendActionPaint(r)
            ELSE FALSE
        view == ItemViewUsed(actionWasPainted, thread)
        rectIsEmpty == wide.availableWidth <= 0
        listText == KeyFolder(r.key) /\ ~rectIsEmpty
        paintView == ~KeyFolder(r.key) /\ view
    IN  [cache |-> wide.cache,
         thr |-> IF paintView
                 THEN [t EXCEPT !.view = ViewAfterPrepare(t.view, r.item)]
                 ELSE t,
         draws |-> wide.draws,
         ops |-> wide.ops
                 \cup (IF actionWasPainted THEN {"sendAction"} ELSE {})
                 \cup (IF listText THEN {"listEntryText"} ELSE {})
                 \cup (IF paintView THEN {"itemView"} ELSE {}),
         viewPainted |-> IF paintView THEN ViewAfterPrepare(t.view, r.item)
                         ELSE NoView,
         wide |-> WideCall(wide)]

\* paintItemCallback of RowPainter::Paint(Row) (lines 959-1010)
RowItemCallback(c, pal, t, r, d, nameleft, namewidth) ==
    RowItemPainted(
        PaintWideCounter(c, pal, r.context, r.context.st.textTop, namewidth, d),
        t, r)

\* paintItemCallback of RowPainter::Paint(FakeRow) after its
\* PaintWideCounter call (lines 1115-1124)
FakeItemPainted(wide, t, r) ==
    [cache |-> wide.cache,
     thr |-> [t EXCEPT !.fakeView = ViewAfterPrepare(t.fakeView, r.item)],
     draws |-> wide.draws,
     ops |-> wide.ops \cup {"itemView"},
     viewPainted |-> ViewAfterPrepare(t.fakeView, r.item),
     wide |-> WideCall(wide)]

\* paintItemCallback of RowPainter::Paint(FakeRow) (lines 1099-1125)
FakeItemCallback(c, pal, t, r, d, nameleft, namewidth) ==
    FakeItemPainted(
        PaintWideCounter(c, pal, r.context, r.context.st.textTop, namewidth, d),
        t, r)

\* the icon of a message that needs a delivery check (lines 592-610)
MessageStateIcon(item) ==
    IF ~item.sending /\ ~item.failed
    THEN (IF item.unread THEN "dialogsSentIcon" ELSE "dialogsReceivedIcon")
    ELSE "dialogsSendingIcon"

SendStateIconPastIdleDraft(thread, draft, item) ==
    IF ~thread THEN ""
    ELSE IF draft # NoDraft /\ draft.saveRequestId # 0
    THEN "dialogsSendingIcon"
    ELSE IF item.exists /\ ~item.empty /\ item.needCheck
    THEN MessageStateIcon(item)
    ELSE ""

\* the send-state icon (lines 580-613); "" when none is painted
SendStateIcon(thread, draft, item) ==
    IF ~thread THEN ""
    ELSE IF draft # NoDraft
    THEN (IF draft.saveRequestId # 0 THEN "dialogsSendingIcon" ELSE "")
    ELSE IF item.exists /\ ~item.empty /\ item.needCheck
    THEN MessageStateIcon(item)
    ELSE ""

ItemDateShownWhenPromoted(thread, promoted) == thread

\* if (thread && !promoted) before paintItemCallback (line 566)
ItemDateShown(thread, promoted) == thread /\ ~promoted

CounterCallbackDespiteDraft(draft, item) == item.exists /\ ~item.empty

\* if (!draft && item && !item->isEmpty()) (line 385)
CounterCallbackCalled(draft, item) ==
    draft = NoDraft /\ item.exists /\ ~item.empty

NarrowLayoutBelowNameLeft(context, nameleft) == context.width < nameleft

\* if (context.width <= nameleft) (line 384)
NarrowLayout(context, nameleft) == context.width <= nameleft

\* the text line of a row as drawn: which text, under which palette
Trailing(kind, text, palette) == [kind |-> kind, text |-> text, palette |-> palette]

ItemCallback(c, pal, t, r, d, nameleft, namewidth) ==
    IF r.entry = "Row" THEN RowItemCallback(c, pal, t, r, d, nameleft, namewidth)
    ELSE FakeItemCallback(c, pal, t, r, d, nameleft, namewidth)

\* the narrow exit after paintCounterCallback() (lines 385-388)
NarrowPainted(blank, narrow) ==
    [blank EXCEPT !.cache = narrow.cache,
                  !.draws = narrow.draws,
                  !.ops = @ \cup narrow.ops,
                  !.counterText = narrow.counterText,
                  !.counterCalled = TRUE]

\* the row after paintItemCallback(nameleft, namewidth) (line 570)
ItemPainted(blank, callback) ==
    [blank EXCEPT !.cache = callback.cache,
                  !.thr = callback.thr,
                  !.draws = callback.draws,
                  !.wide = callback.wide,
                  !.viewPainted = callback.viewPainted,
                  !.counterText = callback.wide.counterText,
                  !.ops = @ \cup callback.ops]

\* PaintRow (lines 312-700); draftArg is the cloudDraft argument, d the
\* display flags the two callbacks capture
PaintRow(c, pal, t, r, draftArg, d) ==
    LET supportMode == r.supportMode
        draft == IF supportMode THEN NoDraft ELSE draftArg
        history == KeyHistory(r.key)
        thread == KeyThread(r.key)
        item == r.item
        context == r.context
        nameleft == context.st.nameLeft
        namewidth == context.width - nameleft - context.st.padding.right
        base == {"bg", "ripple", "userpic"}
        \* lines 384-389
        narrowExit == NarrowLayout(context, nameleft)
        counterCalled == CounterCallbackCalled(draft, item)
        \* lines 398-416
        promoted == (history /\ r.promoted) /\ ~context.search
        \* lines 418-579
        bannerBranch == promoted /\ r.banner # ""
        draftBranch == /\ ~bannerBranch
                       /\ \/ draft # NoDraft
                          \/ supportMode /\ IsOccupiedBySomeone(history, r)
        noItemBranch == ~bannerBranch /\ ~draftBranch /\ ~item.exists
        itemBranch == /\ ~bannerBranch /\ ~draftBranch
                      /\ item.exists /\ ~item.empty
        pinnedBranch == /\ ~bannerBranch /\ ~draftBranch
                        /\ item.exists /\ item.empty
                        /\ PinnedIconShown(r)
        action == ShowSendActionInDialogs(thread, r) /\ SendActionPaint(r)
        bannerCache == IF t.cache = EmptyText THEN PromotionText(r) ELSE t.cache
        draftCache == IF t.cache = EmptyText
                      THEN DraftLineText(supportMode, draft) ELSE t.cache
        icon == SendStateIcon(thread, draft, item)
        tail == (IF icon # "" THEN {"sendState"} ELSE {}) \cup {"name"}
        corner == IF promoted THEN {"promoLabel"} ELSE {}
        pinnedIcon == IF PinnedIconShown(r) THEN {"pinned"} ELSE {}
        blank == [cache |-> c, thr |-> t, draws |-> <<>>,
                  trailing |-> NoTrailing, wide |-> NoWide,
                  viewPainted |-> NoView, counterText |-> <<>>,
                  narrowExit |-> FALSE, counterCalled |-> FALSE,
                  sendStateIcon |-> icon, ops |-> base]
        narrowBlank == [blank EXCEPT !.narrowExit = TRUE,
                                     !.sendStateIcon = ""]
    IN  IF narrowExit THEN
            IF counterCalled
            THEN NarrowPainted(narrowBlank,
                               PaintNarrowCounter(c, pal, context, d))
            ELSE narrowBlank
        ELSE IF bannerBranch THEN
            [blank EXCEPT
                !.thr = [t EXCEPT !.cache = bannerCache],
                !.trailing = Trailing("banner", bannerCache,
                                      <<"default", "">>),
                !.ops = base \cup corner \cup {"banner"} \cup tail]
        ELSE IF draftBranch THEN
            IF action
            THEN [blank EXCEPT
                    !.ops = base \cup corner
                            \cup (IF ~promoted THEN {"date"} ELSE {})
                            \cup pinnedIcon \cup {"sendAction"} \cup tail]
            ELSE [blank EXCEPT
                    !.thr = [t EXCEPT !.cache = draftCache],
                    !.trailing = Trailing("draftLine", draftCache,
                                     DraftPalette(supportMode, context)),
                    !.ops = base \cup corner
                            \cup (IF ~promoted THEN {"date"} ELSE {})
                            \cup pinnedIcon \cup {"draftLine"} \cup tail]
        ELSE IF noItemBranch THEN
            [blank EXCEPT
                !.ops = base \cup corner \cup pinnedIcon
                        \cup (IF action THEN {"sendAction"} ELSE {})
                        \cup tail]
        ELSE IF itemBranch THEN
            ItemPainted(
                [blank EXCEPT
                    !.ops = base \cup corner
                            \cup (IF ItemDateShown(thread, promoted)
                                  THEN {"date"} ELSE {})
                            \cup tail],
                ItemCallback(c, pal, t, r, d, nameleft, namewidth))
        ELSE IF pinnedBranch THEN
            [blank EXCEPT !.ops = base \cup corner \cup {"pinned"} \cup tail]
        ELSE [blank EXCEPT !.ops = base \cup corner \cup tail]

(***************************************************************************)
(* The two entry points.                                                   *)
(***************************************************************************)
RowCloudDraftDespiteUnread(t, r) ==
    IF KeyThread(r.key) /\ t.draft # NoDraft THEN t.draft ELSE NoDraft

\* the cloud draft a live row hands to PaintRow (lines 898-908)
RowCloudDraft(t, r) ==
    IF /\ KeyThread(r.key)
       /\ (~r.item.exists \/ (r.unreadCount = 0 /\ ~r.unreadMark))
       /\ t.draft # NoDraft
    THEN t.draft ELSE NoDraft

DisplayPinnedIconDespiteReaction(counter, mention, reaction, mark, r) ==
    ~counter /\ ~mention /\ ~mark /\ PinnedIconShown(r)

\* displayPinnedIcon of a live row (lines 942-947)
DisplayPinnedIcon(counter, mention, reaction, mark, r) ==
    ~counter /\ ~mention /\ ~reaction /\ ~mark /\ PinnedIconShown(r)

\* the display flags of a live row (lines 922-947)
RowDisplayFlags(r) ==
    LET thread == KeyThread(r.key)
        history == KeyHistory(r.key)
        displayMentionBadge == thread /\ r.mentions
        displayReactionBadge == ~displayMentionBadge /\ thread /\ r.reactions
        displayUnreadCounter ==
            IF /\ displayMentionBadge /\ r.unreadCount = 1
               /\ r.item.exists /\ r.item.unreadMention
            THEN FALSE ELSE r.unreadCount > 0
        displayUnreadMark == /\ ~displayUnreadCounter /\ ~displayMentionBadge
                             /\ history /\ r.unreadMark
    IN  [displayUnreadCounter |-> displayUnreadCounter,
         displayUnreadMark |-> displayUnreadMark,
         displayMentionBadge |-> displayMentionBadge,
         displayReactionBadge |-> displayReactionBadge,
         displayPinnedIcon |->
             DisplayPinnedIcon(displayUnreadCounter, displayMentionBadge,
                               displayReactionBadge, displayUnreadMark, r),
         unreadCount |-> r.unreadCount,
         unreadMuted |-> r.unreadMuted,
         mentionOrReactionMuted |->
             r.inFolder \/ (~displayMentionBadge /\ r.unreadMuted)]

\* the display flags of a fake row (lines 1081-1097)
FakeDisplayFlags(r) ==
    LET unreadCount == IF r.context.displayUnreadInfo THEN r.unreadCount ELSE 0
        unreadMark == r.context.displayUnreadInfo /\ r.unreadMark
        displayMentionBadge == r.context.displayUnreadInfo /\ r.mentions
        displayReactionBadge == /\ r.context.displayUnreadInfo
                                /\ ~displayMentionBadge /\ r.reactions
        displayUnreadCounter == unreadCount > 0
    IN  [displayUnreadCounter |-> displayUnreadCounter,
         displayUnreadMark |-> /\ ~displayUnreadCounter
                               /\ ~displayMentionBadge /\ unreadMark,
         displayMentionBadge |-> displayMentionBadge,
         displayReactionBadge |-> displayReactionBadge,
         displayPinnedIcon |-> FALSE,
         unreadCount |-> unreadCount,
         unreadMuted |-> r.unreadMuted,
         mentionOrReactionMuted |-> r.inFolder]

\* QDateTime(): the null date; the dates of messages and drafts are positive
NoDate == 0

\* ItemDateTime(item): the message's date as a QDateTime
ItemDateTime(item) == item.date

\* displayDate of a live row (lines 909-921)
RowDisplayDate(cloudDraft, item) ==
    IF item.exists
    THEN IF cloudDraft # NoDraft
         THEN (IF item.date > cloudDraft.date THEN ItemDateTime(item)
               ELSE cloudDraft.date)
         ELSE ItemDateTime(item)
    ELSE IF cloudDraft # NoDraft THEN cloudDraft.date ELSE NoDate

\* the date argument of PaintRow as PaintRowDate stamps it (lines 443-445,
\* 566-568): NoDate if no date stamp was painted
DateStamped(res, date) ==
    [date |-> IF "date" \in res.ops THEN date ELSE NoDate] @@ res

\* what a paint leaves in out
Painted(res) ==
    [op |-> "Paint", ops |-> res.ops, trailing |-> res.trailing,
     wide |-> res.wide, viewPainted |-> res.viewPainted,
     counterText |-> res.counterText, narrowExit |-> res.narrowExit,
     counterCalled |-> res.counterCalled,
     sendStateIcon |-> res.sendStateIcon, draws |-> res.draws,
     date |-> res.date]

\* the state one paint leaves behind
PaintDone(res) ==
    /\ cache' = res.cache
    /\ thr' = res.thr
    /\ builds' = CountBuilds(builds, res.draws)
    /\ out' = Painted(res)

\* RowPainter::Paint(Painter&, not_null<const Row*>, VideoUserpic*, context)
PaintLiveRow ==
    /\ inp.kind = "row"
    /\ inp.entry = "Row"
    /\ PaintDone(DateStamped(
           PaintRow(cache, theme, thr, inp, RowCloudDraft(thr, inp),
                    RowDisplayFlags(inp)),
           RowDisplayDate(RowCloudDraft(thr, inp), inp.item)))
    /\ UNCHANGED <<inp, theme>>

\* RowPainter::Paint(Painter&, not_null<const FakeRow*>, context)
PaintFakeRow ==
    /\ inp.kind = "row"
    /\ inp.entry = "FakeRow"
    /\ PaintDone(DateStamped(
           PaintRow(cache, theme, thr, inp, NoDraft, FakeDisplayFlags(inp)),
           ItemDateTime(inp.item)))
    /\ UNCHANGED <<inp, theme>>

(***************************************************************************)
(* Inputs of the row specifications.                                       *)
(***************************************************************************)
MaxWidth == 13         \* widest row of the counter specification

\* a HistoryItem as the painters read it
Message(id, empty, mention, needCheck) ==
    [exists |-> TRUE, id |-> id, empty |-> empty, unreadMention |-> mention,
     needCheck |-> needCheck, sending |-> FALSE, failed |-> FALSE,
     unread |-> TRUE, date |-> 1]

\* Data::Draft
Draft(text, saveRequestId) ==
    [isNull |-> FALSE, text |-> text, saveRequestId |-> saveRequestId,
     date |-> 1]

\* PaintContext; narrow rows are the ones at most nameLeft wide
Context(width, colors, search, filter, displayUnreadInfo) ==
    [st |-> DialogRow, width |-> width, active |-> colors[1],
     selected |-> colors[2], narrow |-> width <= DialogRow.nameLeft,
     search |-> search, filter |-> filter,
     displayUnreadInfo |-> displayUnreadInfo]

\* a thread nothing was painted for yet
NewThread(draft) ==
    [draft |-> draft, cache |-> EmptyText, view |-> NoView, fakeView |-> NoView]

Items == {NoItem, Message(1, TRUE, FALSE, FALSE), Message(1, FALSE, FALSE, TRUE),
          Message(1, FALSE, TRUE, FALSE)}
\* <<pinned, context.filter, fixedOnTop>>: the cases PinnedIconShown tells apart
Pins == {<<FALSE, FALSE, FALSE>>, <<TRUE, TRUE, FALSE>>,
         <<TRUE, FALSE, FALSE>>, <<TRUE, FALSE, TRUE>>}
\* <<useTopPromotion, topPromotionMessage>>
Promos == {<<FALSE, "">>, <<TRUE, "">>, <<TRUE, "psa">>}
\* <<supportMode, occupied>>
Supports == {<<FALSE, FALSE>>, <<TRUE, FALSE>>, <<TRUE, TRUE>>}
SendActions == {"hidden", "idle", "typing"}
PlainColors == <<FALSE, FALSE>>
AllColors == {<<FALSE, FALSE>>, <<FALSE, TRUE>>, <<TRUE, FALSE>>, <<TRUE, TRUE>>}

\* a row: u = <<unreadCount, unreadMark, mentions, reactions>>,
\* m = <<unreadMuted, inFolder>>
RowFacts(entry, key, item, u, m, pin, promo, support, sendAction, context) ==
    [kind |-> "row", entry |-> entry, key |-> key, item |-> item,
     unreadCount |-> u[1], unreadMark |-> u[2], mentions |-> u[3],
     reactions |-> u[4], unreadMuted |-> m[1], inFolder |-> m[2],
     pinned |-> pin[1], fixedOnTop |-> pin[3],
     promoted |-> promo[1], banner |-> promo[2],
     supportMode |-> support[1], occupied |-> support[2],
     sendAction |-> sendAction, context |-> context]

Unreads(counts) == counts \X BOOLEAN \X BOOLEAN \X BOOLEAN
NoUnread == <<0, FALSE, FALSE, FALSE>>
Unmuted == <<FALSE, FALSE>>

(***************************************************************************)
(* The specification of the row layout: a row of every kind, in every     *)
(* state the resolver tells apart, is painted narrow and wide.            *)
(***************************************************************************)
LayoutWidths == {DialogRow.nameLeft, DialogRow.nameLeft + 9}

LayoutCounts == {0, 1}
LayoutDrafts == {NoDraft, Draft("hello", 0)}

InitRowHistory ==
    \E it \in Items, u \in Unreads(LayoutCounts), pn \in Pins, pr \in Promos,
       su \in Supports, sa \in {"idle", "typing"}, w \in LayoutWidths,
       se \in BOOLEAN, dr \in LayoutDrafts :
        /\ inp = RowFacts("Row", "history", it, u, Unmuted, pn, pr, su, sa,
                          Context(w, PlainColors, se, pn[2], TRUE))
        /\ thr = NewThread(dr)

\* a forum topic: no history, so no promotion and nobody occupying it
InitRowTopic ==
    \E it \in Items, u \in Unreads(LayoutCounts), pn \in Pins,
       su \in BOOLEAN, sa \in SendActions, w \in LayoutWidths,
       dr \in LayoutDrafts :
        /\ inp = RowFacts("Row", "topic", it, u, Unmuted, pn, <<FALSE, "">>,
                          <<su, FALSE>>, sa,
                          Context(w, PlainColors, FALSE, pn[2], TRUE))
        /\ thr = NewThread(dr)

\* a folder: no thread, so no draft, mentions, reactions or send action
InitRowFolder ==
    \E it \in Items, n \in LayoutCounts, um \in BOOLEAN, pn \in Pins,
       su \in BOOLEAN, w \in LayoutWidths :
        /\ inp = RowFacts("Row", "folder", it, <<n, um, FALSE, FALSE>>,
                          Unmuted, pn, <<FALSE, "">>, <<su, FALSE>>, "hidden",
                          Context(w, PlainColors, FALSE, pn[2], TRUE))
        /\ thr = NewThread(NoDraft)

\* a search result: one message of a history
InitRowFake ==
    \E it \in {i \in Items : i.exists}, u \in Unreads(LayoutCounts),
       pn \in Pins, pr \in Promos, su \in Supports, sa \in {"idle", "typing"},
       w \in LayoutWidths, se \in BOOLEAN, du \in BOOLEAN,
       dr \in LayoutDrafts :
        /\ inp = RowFacts("FakeRow", "history", it, u, Unmuted, pn, pr, su,
                          sa, Context(w, PlainColors, se, pn[2], du))
        /\ thr = NewThread(dr)

InitRow ==
    /\ InitRowHistory \/ InitRowTopic \/ InitRowFolder \/ InitRowFake
    /\ out = NoOut
    /\ cache = EmptyCache
    /\ theme = 0
    /\ builds = NoBuilds

NextRow == PaintLiveRow \/ PaintFakeRow

SpecRow == InitRow /\ [][NextRow]_vars

(***************************************************************************)
(* Claims on the row layout.                                               *)
(***************************************************************************)
TrailingOps == {"banner", "draftLine", "sendAction", "itemView", "listEntryText"}
CounterOps == {"counter", "mark", "mention", "reaction"}

\* the draft PaintRow works with for the row in inp
EffectiveDraft ==
    IF inp.entry = "Row" /\ ~inp.supportMode THEN RowCloudDraft(thr, inp)
    ELSE NoDraft

(***************************************************************************)
(* C2: in a paint that passes the narrow-width check exactly one renderer *)
(* of the text line is chosen from the state of the row: the promotion    *)
(* banner; else the draft or occupied line, or the typing indicator in    *)
(* its place; else, with no message, the typing indicator or nothing;     *)
(* else, for a non-empty message, the item callback, which never paints   *)
(* both the typing indicator and the message preview; else nothing.  No   *)
(* two renderers are painted in one paint.                                 *)
(***************************************************************************)
C2_OneTrailingRenderer ==
    (out.op = "Paint" /\ inp.context.width > inp.context.st.nameLeft) =>
        LET tr == out.ops \cap TrailingOps
            history == inp.key = "history"
            banner == /\ history /\ inp.promoted /\ ~inp.context.search
                      /\ inp.banner # ""
            hasDraft == EffectiveDraft # NoDraft
            occupied == inp.supportMode /\ history /\ inp.occupied
            typing == inp.key # "folder" /\ inp.sendAction = "typing"
            rest == ~banner /\ ~hasDraft /\ ~occupied
        IN  /\ Cardinality(tr) <= 1
            /\ banner => tr = {"banner"}
            /\ (~banner /\ (hasDraft \/ occupied)) =>
                   tr = IF typing THEN {"sendAction"} ELSE {"draftLine"}
            /\ (rest /\ ~inp.item.exists) =>
                   tr = IF typing THEN {"sendAction"} ELSE {}
            /\ (rest /\ inp.item.exists /\ ~inp.item.empty) =>
                   /\ out.wide.called
                   /\ tr \subseteq {"sendAction", "itemView", "listEntryText"}
                   /\ (inp.entry = "Row" /\ typing) => tr = {"sendAction"}
            /\ (rest /\ inp.item.exists /\ inp.item.empty) => tr = {}
            /\ (out.trailing.kind = "banner") = ("banner" \in tr)
            /\ (out.trailing.kind = "draftLine") = ("draftLine" \in tr)
            /\ (out.viewPainted # NoView) = ("itemView" \in tr)

\* the item callback of a live row paints the typing indicator in place of
\* the preview of the last message
C2_Witness ==
    /\ out.op = "Paint"
    /\ inp.entry = "Row"
    /\ inp.context.width > inp.context.st.nameLeft
    /\ inp.item.exists
    /\ ~inp.item.empty
    /\ inp.sendAction = "typing"
    /\ out.wide.called
    /\ out.ops \cap TrailingOps = {"sendAction"}

(***************************************************************************)
(* C3: no paint of a row, live or fake, paints the pinned icon together   *)
(* with an unread counter, an unread mark, a mention badge or a reaction  *)
(* badge.                                                                  *)
(***************************************************************************)
C3_PinnedIconAlone ==
    out.op = "Paint" =>
        ("pinned" \in out.ops => out.ops \cap CounterOps = {})

\* a pinned chat whose only indicator is a reaction badge
C3_Witness ==
    /\ out.op = "Paint"
    /\ PinnedIconShown(inp)
    /\ out.wide.called
    /\ out.ops \cap CounterOps = {"reaction"}
    /\ "pinned" \notin out.ops

(***************************************************************************)
(* C6: a paint with context.width <= nameLeft paints, after background,   *)
(* ripple and userpic, nothing but the narrow counter overlay: no name,   *)
(* no date or promotion label, no text line, no pinned icon and no        *)
(* send-state icon.                                                        *)
(***************************************************************************)
C6_NarrowPaintsOnlyCounter ==
    (out.op = "Paint" /\ inp.context.width <= inp.context.st.nameLeft) =>
        /\ out.ops \subseteq {"bg", "ripple", "userpic"} \cup CounterOps
        /\ {"bg", "ripple", "userpic"} \subseteq out.ops
        /\ out.trailing = NoTrailing
        /\ out.viewPainted = NoView
        /\ out.wide = NoWide
        /\ out.sendStateIcon = ""
        /\ out.ops \cap CounterOps # {} =>
               EffectiveDraft = NoDraft /\ inp.item.exists /\ ~inp.item.empty

\* a narrow pinned row with a draft-free message, a counter and a mention
C6_Witness ==
    /\ out.op = "Paint"
    /\ inp.context.width = inp.context.st.nameLeft
    /\ PinnedIconShown(inp)
    /\ out.ops = {"bg", "ripple", "userpic", "counter", "reaction"}
    /\ inp.item.needCheck

(***************************************************************************)
(* The specification of the wide counter: rows with a message and no      *)
(* draft, of every width above nameLeft, with small and long counts.      *)
(***************************************************************************)
WideCounts == {0, 1, 7, 12345}

InitWide ==
    /\ \E en \in {"Row", "FakeRow"}, mention \in BOOLEAN,
          u \in Unreads(WideCounts), m \in BOOLEAN \X BOOLEAN,
          pn \in {<<FALSE, FALSE, FALSE>>, <<TRUE, FALSE, FALSE>>},
          w \in (DialogRow.nameLeft + 1)..MaxWidth, co \in AllColors :
        inp = RowFacts(en, "history", Message(1, FALSE, mention, FALSE), u, m,
                       pn, <<FALSE, "">>, <<FALSE, FALSE>>, "hidden",
                       Context(w, co, FALSE, FALSE, TRUE))
    /\ thr = NewThread(NoDraft)
    /\ out = NoOut
    /\ cache = EmptyCache
    /\ theme = 0
    /\ builds = NoBuilds

SpecWide == InitWide /\ [][NextRow]_vars

(***************************************************************************)
(* C7: PaintWideCounter with a counter or mark and neither a mention nor  *)
(* a reaction badge returns the available width it was given minus the    *)
(* painted badge's width plus the badge style's padding; the text of a    *)
(* count n > 0 is the full decimal string of n; the pinned icon is not    *)
(* painted.                                                                *)
(***************************************************************************)
C7_WideCounterWidth ==
    (/\ out.op = "Paint"
     /\ out.wide.called
     /\ out.ops \cap {"counter", "mark"} # {}
     /\ out.ops \cap {"mention", "reaction"} = {}) =>
        /\ Len(out.draws) = 1
        /\ out.wide.availableWidth =
               out.wide.initial
                   - (out.draws[1].rect.width + UnreadBadgeStyle.padding)
        /\ out.draws[1].rect.width =
               Max(Len(out.wide.counterText) * dialogsUnreadFont.digit
                       + 2 * UnreadBadgeStyle.padding,
                   UnreadBadgeStyle.size)
        /\ "counter" \in out.ops =>
               /\ inp.unreadCount > 0
               /\ out.wide.counterText = NumberString(inp.unreadCount)
        /\ "mark" \in out.ops => out.wide.counterText = <<>>
        /\ "pinned" \notin out.ops

\* a pinned chat with 12345 unread messages: the five digits are all shown
C7_Witness ==
    /\ out.op = "Paint"
    /\ out.wide.called
    /\ inp.pinned
    /\ inp.unreadCount = 12345
    /\ out.wide.counterText = <<"1", "2", "3", "4", "5">>
    /\ out.ops \cap CounterOps = {"counter"}
    /\ out.wide.initial = 8
    /\ out.wide.availableWidth = 0

(***************************************************************************)
(* C8: for every call of PaintWideCounter with a non-negative available   *)
(* width the indicators packed at the right (counter or mark or pinned    *)
(* icon, plus mention or reaction badge, with their paddings) never take  *)
(* more than that width: the width returned is never negative.            *)
(***************************************************************************)
C8_RemainingWidthNotNegative ==
    (out.op = "Paint" /\ out.wide.called /\ out.wide.initial >= 0) =>
        out.wide.availableWidth >= 0

(***************************************************************************)
(* The specification of the draft line: one history row is painted again  *)
(* and again while its cloud draft and the paint context change.          *)
(***************************************************************************)
DraftValues == {NoDraft, Draft("hello", 0), Draft("bye", 0)}

InitDraft ==
    /\ \E it \in {NoItem, Message(1, FALSE, FALSE, FALSE)}, pr \in Promos,
          su \in {<<FALSE, FALSE>>, <<TRUE, TRUE>>},
          sa \in {"idle", "typing"} :
        inp = RowFacts("Row", "history", it, NoUnread, Unmuted,
                       <<FALSE, FALSE, FALSE>>, pr, su, sa,
                       Context(MaxWidth, PlainColors, FALSE, FALSE, TRUE))
    /\ thr \in {NewThread(d) : d \in DraftValues}
    /\ out = NoOut
    /\ cache = EmptyCache
    /\ theme = 0
    /\ builds = NoBuilds

\* the data layer replaces the cloud draft of the thread and clears the
\* thread's cloudDraftTextCache
SetCloudDraft ==
    /\ inp.kind = "row"
    /\ \E d \in DraftValues :
        /\ d # thr.draft
        /\ thr' = [thr EXCEPT !.draft = d, !.cache = EmptyText]
    /\ out' = [op |-> "SetCloudDraft"]
    /\ UNCHANGED <<inp, cache, theme, builds>>

\* the list is painted under another PaintContext from now on: the search
\* flag of the context argument flips
SetContextSearch ==
    /\ inp.kind = "row"
    /\ inp' = [inp EXCEPT !.context.search = ~@]
    /\ out' = [op |-> "SetContextSearch"]
    /\ UNCHANGED <<thr, cache, theme, builds>>

NextDraft == PaintLiveRow \/ SetCloudDraft \/ SetContextSearch

SpecDraft == InitDraft /\ [][NextDraft]_vars

(***************************************************************************)
(* C9: whenever a row with cloud draft D is painted with support mode off *)
(* and no send-action indicator, and the paint draws the draft line, the  *)
(* line is "Draft:" followed by the preview of the current text of D,     *)
(* under the draft palette; this holds after any earlier paints of the    *)
(* thread and any draft changes, each of which clears the text cache.     *)
(***************************************************************************)
C9_DraftLineShowsDraft ==
    (/\ out.op = "Paint"
     /\ ~inp.supportMode
     /\ EffectiveDraft # NoDraft
     /\ "sendAction" \notin out.ops
     /\ out.trailing.kind = "draftLine") =>
        /\ out.trailing.text = DraftLineText(FALSE, thr.draft)
        /\ out.trailing.palette = <<"dialogsTextPaletteDraft", Variant(inp.context)>>

(***************************************************************************)
(* C11 as stated: whenever PaintRow is called with context.width <=       *)
(* nameLeft the narrow counter callback is invoked, whatever the state of *)
(* the row (draft or none, message or none, empty or non-empty message).  *)
(***************************************************************************)
C11_CounterAlwaysCalled ==
    (out.op = "Paint" /\ inp.context.width <= inp.context.st.nameLeft) =>
        out.counterCalled

(***************************************************************************)
(* C11 as the code has it: whenever PaintRow is called with               *)
(* context.width <= nameLeft the narrow counter callback is invoked at    *)
(* most once, and it is invoked exactly when PaintRow has no draft (none  *)
(* given, or support mode) and the row has a non-empty message; each      *)
(* badge the display flags ask for is then drawn once, otherwise none is. *)
(***************************************************************************)
C11_CounterCalledForItemOnly ==
    (out.op = "Paint" /\ inp.context.width <= inp.context.st.nameLeft) =>
        LET d == IF inp.entry = "Row" THEN RowDisplayFlags(inp)
                 ELSE FakeDisplayFlags(inp)
            counters == IF d.displayUnreadCounter \/ d.displayUnreadMark
                        THEN 1 ELSE 0
            mentions == IF d.displayMentionBadge \/ d.displayReactionBadge
                        THEN 1 ELSE 0
        IN  /\ out.narrowExit
            /\ out.counterCalled =
                   (/\ EffectiveDraft = NoDraft
                    /\ inp.item.exists
                    /\ ~inp.item.empty)
            /\ Len(out.draws) =
                   IF out.counterCalled THEN counters + mentions ELSE 0

\* a narrow row with a draft and an unread reaction: no overlay is painted
C11_Witness ==
    /\ out.op = "Paint"
    /\ inp.context.width <= inp.context.st.nameLeft
    /\ EffectiveDraft # NoDraft
    /\ inp.item.exists
    /\ ~inp.item.empty
    /\ inp.reactions
    /\ ~out.counterCalled
    /\ out.ops = {"bg", "ripple", "userpic"}

(***************************************************************************)
(* The specification of the send-state icon: rows of every kind whose     *)
(* message is in every delivery state and whose draft is absent, saved or *)
(* being saved.                                                            *)
(***************************************************************************)
\* <<empty, needCheck, sending, failed, unread>> of a message
MessageStates == BOOLEAN \X BOOLEAN \X BOOLEAN \X BOOLEAN \X BOOLEAN

StatedMessage(ms) ==
    [Message(1, ms[1], FALSE, ms[2]) EXCEPT
        !.sending = ms[3], !.failed = ms[4], !.unread = ms[5]]

IconDrafts == {NoDraft, Draft("hello", 0), Draft("hello", 7)}

InitIcon ==
    /\ \/ \E key \in {"history", "topic", "folder"},
             it \in {NoItem} \cup {StatedMessage(ms) : ms \in MessageStates},
             su \in BOOLEAN, w \in LayoutWidths :
            inp = RowFacts("Row", key, it, NoUnread, Unmuted,
                           <<FALSE, FALSE, FALSE>>, <<FALSE, "">>,
                           <<su, FALSE>>, "idle",
                           Context(w, PlainColors, FALSE, FALSE, TRUE))
       \/ \E ms \in MessageStates, su \in BOOLEAN, w \in LayoutWidths :
            inp = RowFacts("FakeRow", "history", StatedMessage(ms), NoUnread,
                           Unmuted, <<FALSE, FALSE, FALSE>>, <<FALSE, "">>,
                           <<su, FALSE>>, "idle",
                           Context(w, PlainColors, TRUE, FALSE, TRUE))
    /\ thr \in {NewThread(d) : d \in IconDrafts}
    /\ out = NoOut
    /\ cache = EmptyCache
    /\ theme = 0
    /\ builds = NoBuilds

SpecIcon == InitIcon /\ [][NextRow]_vars

(***************************************************************************)
(* C12 as stated, for paints that pass the narrow-width check: no         *)
(* send-state icon without a thread; the sending icon for a draft with a  *)
(* non-zero save request id; otherwise, for a non-empty message that      *)
(* needs a delivery check, the sending icon iff it is sending or failed,  *)
(* the sent icon iff it is neither and unread, else the received icon.    *)
(***************************************************************************)
C12_IconForEveryCheckedMessage ==
    (out.op = "Paint" /\ inp.context.width > inp.context.st.nameLeft) =>
        LET draft == EffectiveDraft
            pending == draft # NoDraft /\ draft.saveRequestId # 0
            item == inp.item
        IN  /\ inp.key = "folder" => out.sendStateIcon = ""
            /\ (inp.key # "folder" /\ pending) =>
                   out.sendStateIcon = "dialogsSendingIcon"
            /\ (/\ inp.key # "folder" /\ ~pending
                /\ item.exists /\ ~item.empty /\ item.needCheck) =>
                   out.sendStateIcon =
                       IF item.sending \/ item.failed
                       THEN "dialogsSendingIcon"
                       ELSE IF item.unread THEN "dialogsSentIcon"
                       ELSE "dialogsReceivedIcon"

(***************************************************************************)
(* C12 as the code has it, for paints that pass the narrow-width check:   *)
(* no send-state icon without a thread; with a draft, the sending icon    *)
(* iff its save request id is non-zero and no icon otherwise, whatever    *)
(* the message; with no draft and a non-empty message that needs a        *)
(* delivery check, the sending icon iff it is sending or failed, the sent *)
(* icon iff it is neither and unread, else the received icon; no icon in  *)
(* every other case.  The icon is painted iff one is selected.            *)
(***************************************************************************)
C12_SendStateIcon ==
    (out.op = "Paint" /\ inp.context.width > inp.context.st.nameLeft) =>
        LET draft == EffectiveDraft
            item == inp.item
            icon == out.sendStateIcon
        IN  /\ ("sendState" \in out.ops) = (icon # "")
            /\ inp.key = "folder" => icon = ""
            /\ (inp.key # "folder" /\ draft # NoDraft) =>
                   icon = IF draft.saveRequestId # 0
                          THEN "dialogsSendingIcon" ELSE ""
            /\ (/\ inp.key # "folder" /\ draft = NoDraft
                /\ item.exists /\ ~item.empty /\ item.needCheck) =>
                   icon = IF item.sending \/ item.failed
                          THEN "dialogsSendingIcon"
                          ELSE IF item.unread THEN "dialogsSentIcon"
                          ELSE "dialogsReceivedIcon"
            /\ (/\ inp.key # "folder" /\ draft = NoDraft
                /\ ~(item.exists /\ ~item.empty /\ item.needCheck)) =>
                   icon = ""

\* a saved draft over a delivered message that needs a check: no icon
C12_Witness ==
    /\ out.op = "Paint"
    /\ inp.context.width > inp.context.st.nameLeft
    /\ inp.key = "history"
    /\ EffectiveDraft = Draft("hello", 0)
    /\ inp.item.exists
    /\ ~inp.item.empty
    /\ inp.item.needCheck
    /\ ~inp.item.sending
    /\ ~inp.item.failed
    /\ out.sendStateIcon = ""
    /\ out.trailing.kind = "draftLine"

(***************************************************************************)
(* The branch of the text line PaintRow takes for the row in inp.         *)
(***************************************************************************)
RowPromoted ==
    inp.key = "history" /\ inp.promoted /\ ~inp.context.search

RowBranch ==
    IF RowPromoted /\ inp.banner # "" THEN "banner"
    ELSE IF \/ EffectiveDraft # NoDraft
            \/ inp.supportMode /\ inp.key = "history" /\ inp.occupied
    THEN "draft"
    ELSE IF ~inp.item.exists THEN "noItem"
    ELSE IF ~inp.item.empty THEN "item"
    ELSE "emptyItem"

(***************************************************************************)
(* C13 as stated: in every paint that reaches the text line a date stamp  *)
(* is painted if and only if the row is not promoted and the branch taken *)
(* is the draft or occupied branch or the non-empty-message branch.       *)
(***************************************************************************)
C13_DateForEveryMessage ==
    (out.op = "Paint" /\ inp.context.width > inp.context.st.nameLeft) =>
        ("date" \in out.ops) =
            (~RowPromoted /\ RowBranch \in {"draft", "item"})

(***************************************************************************)
(* C13 as the code has it: in every paint that reaches the text line a    *)
(* date stamp is painted if and only if the row is not promoted and the   *)
(* branch taken is the draft or occupied branch, or the                   *)
(* non-empty-message branch of a row with a thread (not a folder); the    *)
(* promotion label is painted iff the row is promoted, so the date stamp  *)
(* and the promotion label are never both painted in one row.             *)
(***************************************************************************)
C13_DateUnlessPromoted ==
    (out.op = "Paint" /\ inp.context.width > inp.context.st.nameLeft) =>
        /\ ("date" \in out.ops) =
               (/\ ~RowPromoted
                /\ \/ RowBranch = "draft"
                   \/ RowBranch = "item" /\ inp.key # "folder")
        /\ ("promoLabel" \in out.ops) = RowPromoted
        /\ ~("date" \in out.ops /\ "promoLabel" \in out.ops)

\* a folder row showing its last message has no date stamp
C13_Witness ==
    /\ out.op = "Paint"
    /\ inp.context.width > inp.context.st.nameLeft
    /\ inp.key = "folder"
    /\ RowBranch = "item"
    /\ out.wide.called
    /\ "listEntryText" \in out.ops
    /\ "date" \notin out.ops
    /\ "promoLabel" \notin out.ops

(***************************************************************************)
(* Claims on the colour index of a badge.                                  *)
(***************************************************************************)
\* the visual state of a style: muted or not, and active, selected or plain
VisualState(st) ==
    <<st.muted,
      IF st.active THEN "active"
      ELSE IF st.selected THEN "selected" ELSE "plain">>

(***************************************************************************)
(* C14: the colour index PaintUnreadBadge computes from (muted, active,   *)
(* selected) lies in 0..5; active takes precedence over selected; the six *)
(* visual states {plain, selected, active} x {not muted, muted} have six  *)
(* distinct indices, so two different visual states of one size class     *)
(* never draw the same cached pixmap or colour-table entry; reaction-size *)
(* badges read the reaction colour table at the same index, the others    *)
(* the plain table.                                                       *)
(***************************************************************************)
C14_ColorIndex ==
    \A st \in BadgeStyles :
        LET draw == DrawNow(st)
            i == draw.index
        IN  /\ i \in 0..5
            /\ i = (IF st.muted THEN 3 ELSE 0)
                   + (IF st.active THEN 2 ELSE IF st.selected THEN 1 ELSE 0)
            /\ st.active =>
                   i = DrawNow([st EXCEPT !.selected = ~st.selected]).index
            /\ draw.left.color.name =
                   IF st.sizeId = "ReactionInDialogs"
                   THEN ReactionBgTable[i + 1] ELSE BgTable[i + 1]
            /\ draw.right.color = draw.left.color
            /\ draw.left = ColorizeCircleHalf(draw.left.mask, "left",
                                              draw.left.color)
            /\ \A other \in BadgeStyles :
                   LET drawn == DrawNow(other)
                   IN  /\ (VisualState(other) = VisualState(st))
                               = (drawn.index = i)
                       /\ (/\ other.sizeId = st.sizeId
                           /\ VisualState(other) # VisualState(st)) =>
                               /\ drawn.left # draw.left
                               /\ drawn.right # draw.right
                               /\ drawn.left.color.name # draw.left.color.name

\* the muted active reaction badge and the plain counter badge are cached
\* under their own indices and colours
C14_Witness ==
    /\ out.op = "PaintUnreadBadge"
    /\ cache.left["ReactionInDialogs"][5] # Null
    /\ cache.left["ReactionInDialogs"][5].color.name = "dialogsUnreadBgMutedActive"
    /\ cache.left["ReactionInDialogs"][2] # Null
    /\ cache.left["ReactionInDialogs"][2].color.name = "dialogsDraftFgActive"
    /\ cache.left["Dialogs"][2] # Null
    /\ cache.left["Dialogs"][2].color.name = "dialogsUnreadBgActive"
    /\ cache.left["Dialogs"][1] # Null

(***************************************************************************)
(* Claims on the badges of one row.                                        *)
(***************************************************************************)
\* the elements of the first and of the second block of a counter layout
FirstBlockOps == {"counter", "mark", "pinned"}
SecondBlockOps == {"mention", "reaction"}

\* the right edge of a painted rectangle
RightEdge(rect) == rect.left + rect.width

(***************************************************************************)
(* C15: in every row paint from either RowPainter::Paint entry point at   *)
(* most one of {unread counter, unread mark, pinned icon} and at most one *)
(* of {mention badge, reaction badge} is painted, the reaction badge only *)
(* without a mention badge; in the wide and in the narrow layout the      *)
(* mention / reaction badge ends at or left of the left edge of the       *)
(* counter or mark painted before it (the pinned icon is never painted    *)
(* together with one), so the two rectangles do not overlap.              *)
(***************************************************************************)
C15_BadgesApart ==
    out.op = "Paint" =>
        LET first == out.ops \cap FirstBlockOps
            second == out.ops \cap SecondBlockOps
        IN  /\ Cardinality(first) <= 1
            /\ Cardinality(second) <= 1
            /\ "reaction" \in out.ops =>
                   ~(IF inp.entry = "Row" THEN RowDisplayFlags(inp)
                     ELSE FakeDisplayFlags(inp)).displayMentionBadge
            /\ "pinned" \in out.ops => second = {}
            /\ Len(out.draws) = Cardinality(out.ops \cap CounterOps)
            /\ (first # {} /\ second # {}) =>
                   /\ Len(out.draws) = 2
                   /\ out.draws[1].sizeId = "Dialogs"
                   /\ out.draws[2].sizeId =
                          IF "mention" \in out.ops THEN "Dialogs"
                          ELSE "ReactionInDialogs"
                   /\ out.draws[2].rect.width > 0
                   /\ out.draws[1].rect.width > 0
                   /\ RightEdge(out.draws[2].rect) <= out.draws[1].rect.left

\* a narrow fake row painted its counter and, left of it, a reaction badge
C15_Witness ==
    /\ out.op = "Paint"
    /\ inp.entry = "FakeRow"
    /\ out.narrowExit
    /\ out.ops \cap CounterOps = {"counter", "reaction"}
    /\ Len(out.draws) = 2
    /\ RightEdge(out.draws[2].rect) < out.draws[1].rect.left

(***************************************************************************)
(* The specification of the preview views: a row is painted again and     *)
(* again while the message it is bound to is replaced between paints.     *)
(***************************************************************************)
\* the messages a row is bound to in turn
ViewMessages == {Message(1, FALSE, FALSE, FALSE), Message(2, FALSE, FALSE, FALSE)}

InitView ==
    /\ \E e \in {<<"Row", "history">>, <<"Row", "topic">>,
                 <<"FakeRow", "history">>},
          it \in ViewMessages, u \in Unreads(LayoutCounts),
          sa \in {"idle", "typing"}, w \in LayoutWidths, dr \in LayoutDrafts :
            /\ inp = RowFacts(e[1], e[2], it, u, Unmuted,
                              <<FALSE, FALSE, FALSE>>, <<FALSE, "">>,
                              <<FALSE, FALSE>>, sa,
                              Context(w, PlainColors, FALSE, FALSE, TRUE))
            /\ thr = NewThread(dr)
    /\ out = NoOut
    /\ cache = EmptyCache
    /\ theme = 0
    /\ builds = NoBuilds

\* the row's message is replaced: entry->chatListMessage() of a live row,
\* row->item() of a fake row
SetMessage ==
    /\ inp.kind = "row"
    /\ \E it \in ViewMessages :
        /\ it # inp.item
        /\ inp' = [inp EXCEPT !.item = it]
    /\ out' = [op |-> "SetMessage"]
    /\ UNCHANGED <<cache, theme, builds, thr>>

NextView == PaintLiveRow \/ PaintFakeRow \/ SetMessage

SpecView == InitView /\ [][NextView]_vars

\* the cached preview view of the row painted
RowView(t) == IF inp.entry = "Row" THEN t.view ELSE t.fakeView

(***************************************************************************)
(* C16: while the message bound to a row changes between paints, every    *)
(* time a cached item preview view is painted (live row: the thread's     *)
(* last-item view; fake row: the row's item view) it is prepared for the  *)
(* message bound to the row at that paint: a view not prepared for that   *)
(* message is prepared for it before it is painted, a view prepared for   *)
(* it is painted as it is, and a view prepared for an earlier message is  *)
(* never painted.                                                         *)
(***************************************************************************)
C16_ViewPreparedForMessage ==
    /\ []((out.op = "Paint" /\ "itemView" \in out.ops) =>
            /\ out.viewPainted.prepared
            /\ out.viewPainted.item = inp.item.id
            /\ RowView(thr) = out.viewPainted)
    /\ [][(out'.op = "Paint" /\ "itemView" \in out'.ops) =>
            /\ ViewPrepared(RowView(thr'), inp.item)
            /\ ViewPrepared(RowView(thr), inp.item) => RowView(thr') = RowView(thr)
            /\ ~ViewPrepared(RowView(thr), inp.item) =>
                   RowView(thr') = ViewPrepare(RowView(thr), inp.item)]_vars

\* a view that was prepared for an earlier message is painted for message 2
C16_Witness ==
    /\ out.op = "Paint"
    /\ "itemView" \in out.ops
    /\ inp.entry = "Row"
    /\ inp.item.id = 2
    /\ out.viewPainted.reused
    /\ out.viewPainted.item = 2

(***************************************************************************)
(* The collapsed row (the bar of a folder or section).                     *)
(***************************************************************************)
dialogsImportantBarHeight == 4
semiboldFont == [digit |-> 1, dot |-> 1]

\* int / 2 of the language: the quotient is truncated towards zero
Half(n) == IF n >= 0 THEN n \div 2 ELSE -((-n) \div 2)

\* (st::dialogsImportantBarHeight - st::dialogsUnreadHeight) / 2 (line 1194)
CollapsedUnreadTop == Half(dialogsImportantBarHeight - dialogsUnreadHeight)

\* context.selected ? st::dialogsBgOver : st::dialogsBg (line 1190)
CollapsedFill(context) ==
    IF context.selected THEN "dialogsBgOver" ELSE "dialogsBg"

LabelShownWideOnly(context, folder) == ~context.narrow

\* if (!context.narrow || !folder) (line 1195): the label, else the userpic
LabelShown(context, folder) == ~context.narrow \/ ~folder

\* the label drawn by p.drawText(left, textBaseline, text) (lines 1196-1206)
CollapsedLabel(context, text) ==
    [isNull |-> FALSE, font |-> "semiboldFont", pen |-> "dialogsNameFg",
     text |-> text,
     left |-> IF context.narrow
              THEN Half(context.width - FontWidth(semiboldFont, text))
              ELSE context.st.padding.left]

\* folder->paintUserpic(p, x, y, size) (lines 1208-1212)
CollapsedUserpic(context) ==
    [isNull |-> FALSE,
     left |-> Half(context.width - dialogsUnreadHeight),
     top |-> CollapsedUnreadTop,
     size |-> dialogsUnreadHeight]

\* the bar before its badge: fill, ripple and label or userpic (1189-1213)
CollapsedBar(c, folder, text, context) ==
    [cache |-> c, draws |-> <<>>,
     ops |-> {"bg", "ripple"}
             \cup (IF LabelShown(context, folder) THEN {"label"}
                   ELSE {"folderUserpic"}),
     fill |-> CollapsedFill(context),
     label |-> IF LabelShown(context, folder)
               THEN CollapsedLabel(context, text) ELSE Null,
     userpic |-> IF LabelShown(context, folder) THEN Null
                 ELSE CollapsedUserpic(context),
     badgeText |-> <<>>]

\* after the PaintUnreadBadge call of lines 1218-1223
CollapsedAfterBadge(s, b) ==
    [s EXCEPT !.cache = b.cache,
              !.draws = @ \o <<b.draw>>,
              !.ops = @ \cup {"counter"},
              !.badgeText = b.text]

\* the style of the badge: UnreadBadgeStyle st; st.muted = true; (1216-1217)
CollapsedStyle == [UnreadBadgeStyle EXCEPT !.muted = TRUE]

\* if (!context.narrow && unread) (line 1214)
CollapsedBadgeShown(context, unread) == ~context.narrow /\ unread # 0

\* void PaintCollapsedRow(Painter&, const BasicRow&, Data::Folder*,
\*     const QString &text, int unread, const PaintContext&); folder: whether
\* the pointer is not null
PaintCollapsedRow(c, pal, folder, text, unread, context) ==
    IF CollapsedBadgeShown(context, unread)
    THEN CollapsedAfterBadge(
             CollapsedBar(c, folder, text, context),
             PaintUnreadBadge(c, pal, NumberString(unread),
                 context.width - context.st.padding.right,
                 CollapsedUnreadTop, CollapsedStyle, DefaultAllowDigits))
    ELSE CollapsedBar(c, folder, text, context)

\* what a paint of the bar leaves in out
CollapsedPainted(res) ==
    [op |-> "PaintCollapsedRow", ops |-> res.ops, fill |-> res.fill,
     label |-> res.label, userpic |-> res.userpic,
     badgeText |-> res.badgeText, draws |-> res.draws]

CollapsedDone(res) ==
    /\ cache' = res.cache
    /\ builds' = CountBuilds(builds, res.draws)
    /\ out' = CollapsedPainted(res)

(***************************************************************************)
(* The specification of the collapsed row: bars with and without a        *)
(* folder, narrow and wide, selected or not, are painted.                 *)
(***************************************************************************)
CollapsedTexts == {<<"a">>, <<"a", "b">>, <<"a", "b", "c", "d", "e", "f", "g">>}
CollapsedCounts == {0, 1, 7, 12345}

InitCollapsed ==
    /\ \E folder \in BOOLEAN, text \in CollapsedTexts,
          unread \in CollapsedCounts, w \in LayoutWidths, colors \in AllColors :
            inp = [kind |-> "collapsed", folder |-> folder, text |-> text,
                   unread |-> unread,
                   context |-> Context(w, colors, FALSE, FALSE, TRUE)]
    /\ out = NoOut
    /\ cache = EmptyCache
    /\ theme = 0
    /\ builds = NoBuilds
    /\ thr = NewThread(NoDraft)

CallPaintCollapsedRow ==
    /\ inp.kind = "collapsed"
    /\ CollapsedDone(PaintCollapsedRow(cache, theme, inp.folder, inp.text,
                                       inp.unread, inp.context))
    /\ UNCHANGED <<inp, theme, thr>>

NextCollapsed == CallPaintCollapsedRow

SpecCollapsed == InitCollapsed /\ [][NextCollapsed]_vars

\* what the bar shows, apart from its background fill and from whether a
\* pixmap had to be built
CollapsedContent(res) ==
    [ops |-> res.ops, label |-> res.label, userpic |-> res.userpic,
     badgeText |-> res.badgeText,
     badges |-> [k \in DOMAIN res.draws |->
                    [res.draws[k] EXCEPT !.built = FALSE]]]

\* the bar as painted now with the selected flag the other way round
OtherSelection ==
    PaintCollapsedRow(cache, theme, inp.folder, inp.text, inp.unread,
                      [inp.context EXCEPT !.selected = ~inp.context.selected])

\* wide mode: the label at the left padding and, exactly for unread > 0, a
\* muted badge ending at the right padding; the selected flag changes the
\* fill only
CollapsedWide ==
    (out.op = "PaintCollapsedRow" /\ ~inp.context.narrow) =>
        /\ out.label # Null
        /\ out.label.text = inp.text
        /\ out.label.left = inp.context.st.padding.left
        /\ out.userpic = Null
        /\ ("counter" \in out.ops) = (inp.unread > 0)
        /\ Len(out.draws) = IF inp.unread > 0 THEN 1 ELSE 0
        /\ inp.unread > 0 =>
               /\ out.draws[1].index = 3
               /\ out.draws[1].sizeId = "Dialogs"
               /\ out.draws[1].left.color.name = "dialogsUnreadBgMuted"
               /\ RightEdge(out.draws[1].rect) =
                      inp.context.width - inp.context.st.padding.right
               /\ out.badgeText = NumberString(inp.unread)

CollapsedSelection ==
    out.op = "PaintCollapsedRow" =>
        /\ CollapsedContent(OtherSelection) = CollapsedContent(out)
        /\ OtherSelection.fill # out.fill
        /\ out.fill = IF inp.context.selected THEN "dialogsBgOver" ELSE "dialogsBg"

(***************************************************************************)
(* C17 as stated: in wide mode the label is drawn and a muted unread      *)
(* badge is drawn on the right exactly when unread > 0; in narrow mode a  *)
(* centered folder userpic is drawn instead of the label and no badge,    *)
(* for every input including a null folder; the selected flag changes     *)
(* only the background fill.                                              *)
(***************************************************************************)
C17_NarrowAlwaysGlyph ==
    /\ CollapsedWide
    /\ CollapsedSelection
    /\ (out.op = "PaintCollapsedRow" /\ inp.context.narrow) =>
           /\ out.userpic # Null
           /\ out.label = Null
           /\ out.draws = <<>>

(***************************************************************************)
(* C17 as the code has it: the wide mode and the selected flag as above;  *)
(* in narrow mode no badge is drawn, and the centered folder userpic      *)
(* replaces the label only if there is a folder: without a folder the     *)
(* label is drawn, centered in the width.                                 *)
(***************************************************************************)
C17_CollapsedRow ==
    /\ CollapsedWide
    /\ CollapsedSelection
    /\ (out.op = "PaintCollapsedRow" /\ inp.context.narrow) =>
           /\ out.draws = <<>>
           /\ "counter" \notin out.ops
           /\ inp.folder =>
                  /\ out.label = Null
                  /\ out.userpic # Null
                  /\ out.userpic.left =
                         Half(inp.context.width - dialogsUnreadHeight)
           /\ ~inp.folder =>
                  /\ out.userpic = Null
                  /\ out.label # Null
                  /\ out.label.text = inp.text
                  /\ out.label.left =
                         Half(inp.context.width - FontWidth(semiboldFont, inp.text))

\* a narrow bar without a folder, with unread chats, shows its label
C17_Witness ==
    /\ out.op = "PaintCollapsedRow"
    /\ inp.context.narrow
    /\ ~inp.folder
    /\ inp.unread > 0
    /\ out.ops = {"bg", "ripple", "label"}
    /\ out.label # Null
    /\ out.label.left = 1

(***************************************************************************)
(* The specification of the draft of a live row: rows with and without a  *)
(* last message, unread state and cloud draft, of different dates.        *)
(***************************************************************************)
DatedItems ==
    {NoItem} \cup {[m EXCEPT !.date = dt] :
                      m \in {Message(1, TRUE, FALSE, FALSE),
                             Message(1, FALSE, FALSE, TRUE)},
                      dt \in {1, 3}}
DatedDrafts == {NoDraft} \cup {[Draft("hello", s) EXCEPT !.date = 2] : s \in {0, 5}}

InitDate ==
    /\ \/ \E key \in {"history", "topic"}, it \in DatedItems,
             n \in LayoutCounts, um \in BOOLEAN, pr \in Promos,
             su \in Supports, sa \in {"idle", "typing"}, w \in LayoutWidths,
             dr \in DatedDrafts :
               /\ inp = RowFacts("Row", key, it, <<n, um, FALSE, FALSE>>,
                                 Unmuted, <<FALSE, FALSE, FALSE>>,
                                 IF key = "history" THEN pr ELSE <<FALSE, "">>,
                                 IF key = "history" THEN su ELSE <<su[1], FALSE>>,
                                 sa, Context(w, PlainColors, FALSE, FALSE, TRUE))
               /\ thr = NewThread(dr)
       \/ \E it \in DatedItems, n \in LayoutCounts, um \in BOOLEAN,
             w \in LayoutWidths :
               /\ inp = RowFacts("Row", "folder", it, <<n, um, FALSE, FALSE>>,
                                 Unmuted, <<FALSE, FALSE, FALSE>>, <<FALSE, "">>,
                                 <<FALSE, FALSE>>, "hidden",
                                 Context(w, PlainColors, FALSE, FALSE, TRUE))
               /\ thr = NewThread(NoDraft)
    /\ out = NoOut
    /\ cache = EmptyCache
    /\ theme = 0
    /\ builds = NoBuilds

NextDate == PaintLiveRow

SpecDate == InitDate /\ [][NextDate]_vars

\* the conditions under which the row's cloud draft may be used
DraftUsable ==
    /\ KeyThread(inp.key)
    /\ thr.draft # NoDraft
    /\ ~inp.item.exists \/ (inp.unreadCount = 0 /\ ~inp.unreadMark)

\* the trailing line is the draft's text
TrailingFromDraft ==
    /\ out.trailing.kind = "draftLine"
    /\ out.trailing.text.kind = "lng_from_draft"

\* the date stamp is the draft's date and not the message's
DateFromDraft ==
    /\ out.date # NoDate
    /\ thr.draft # NoDraft
    /\ out.date = thr.draft.date
    /\ inp.item.exists => out.date # inp.item.date

\* the send-state icon is not the one the row has without a draft
IconFromDraft ==
    /\ ~out.narrowExit
    /\ out.sendStateIcon # SendStateIcon(KeyThread(inp.key), NoDraft, inp.item)

\* the row has a last message and an unread count or the unread mark
UnreadMessage ==
    inp.item.exists /\ (inp.unreadCount > 0 \/ inp.unreadMark)

\* the draft is used only if usable, never for an unread message, and the
\* date shown with a used draft is the later of the two dates
DraftUse ==
    out.op = "Paint" =>
        /\ (TrailingFromDraft \/ DateFromDraft \/ IconFromDraft) => DraftUsable
        /\ UnreadMessage =>
               /\ RowCloudDraft(thr, inp) = NoDraft
               /\ ~TrailingFromDraft /\ ~DateFromDraft /\ ~IconFromDraft
               /\ out.date \in {NoDate, inp.item.date}
        /\ (DraftUsable /\ out.date # NoDate) =>
               out.date = IF inp.item.exists
                          THEN Max(inp.item.date, thr.draft.date)
                          ELSE thr.draft.date

==========================================================================
